---- MODULE Spec2Model ----
(***************************************************************************)
(* Model of the portfolio's runtime core: the EventBus publish/subscribe   *)
(* registry (core/EventBus.js) and the PerformanceMonitor quality scaler   *)
(* (core/PerformanceMonitor.js), and of what the application builds on     *)
(* them: the singleton accessors, the SceneManager render loop with        *)
(* PortfolioApp on top of it, and the listeners of CameraController and    *)
(* HeroScene.                                                              *)
(*                                                                         *)
(* EventBus keeps two Map<string, Set<Function>>.  A JavaScript Set keeps  *)
(* insertion order, ignores the add of a member, and Set.prototype.forEach *)
(* walks the live set: a member deleted before it is reached is skipped, a *)
(* member added while the walk is running is visited.  A Set is modelled   *)
(* as a sequence of distinct members; a running forEach is a stack frame   *)
(* holding the number of members it has passed.  Map.delete(event) drops   *)
(* the Set object from the map: a forEach that is walking it keeps walking *)
(* the dropped object, which no later on/once/off can reach any more.      *)
(***************************************************************************)
EXTENDS Integers, Sequences, FiniteSets, TLC

Events == {"e1", "e2"}
Handlers == {"h1", "h2"}
NoHandler == "none"

\* Bounds of the exploration: EventBus calls in a run (under on/once/off/emit
\* alone the run may be one call longer), nesting of emit() calls, and
\* evaluations of the frame rate in a run.
MaxOps == 5
MaxOpsCore == 6
MaxDepth == 2
MaxEvals == 2

\* Objects of one class constructed in a run.
MaxBuilt == 3

\* requestAnimationFrame() calls in a run, and callbacks registered with
\* onBeforeRender() / onAfterRender() each.
MaxHandles == 4
MaxCallbacks == 1

\* Function objects made with bind() in a run.
MaxBound == 7

\* Requests AssetManager hands to its loaders in a run.
MaxLoads == 4

VARIABLES
    listeners,      \* EventBus.listeners: event -> [has, data]
    onceListeners,  \* EventBus.onceListeners: event -> [has, data]
    stack,          \* call stack of emit() invocations that are dispatching
    ops,            \* number of EventBus API calls made so far
    handle,         \* per (event, handler): the unsubscribe closure of on()
    onceState,      \* per (event, handler): life of its once() registration
    last,           \* the EventBus call made last, and what it found
    budget          \* number of EventBus calls the run may make

busVars == <<listeners, onceListeners, stack, ops, handle, onceState, last>>

VARIABLES
    now,                \* performance.now(), in ms
    load,               \* what the frames cost at present: [gap, work] in ms
    pc,                 \* "idle" between frames, "frame" between begin() and end()
    fps,                \* PerformanceMonitor.fps
    frameTime,          \* PerformanceMonitor.frameTime
    lastTime,           \* PerformanceMonitor.lastTime
    frames,             \* PerformanceMonitor.frames
    lastFpsUpdate,      \* PerformanceMonitor.lastFpsUpdate
    beginTime,          \* PerformanceMonitor.beginTime
    currentQuality,     \* PerformanceMonitor.currentQuality
    autoQualityAdjust,  \* PerformanceMonitor.autoQualityAdjust
    frameTimes,         \* PerformanceMonitor.frameTimes
    emitted,            \* the events the last PerformanceMonitor call emitted
    seen,               \* the last PerformanceMonitor call, and what end() found
    durations           \* every frame duration end() has measured, in arrival order

perfVars == <<now, load, pc, fps, frameTime, lastTime, frames, lastFpsUpdate, beginTime,
              currentQuality, autoQualityAdjust, frameTimes, emitted, seen, durations>>

VARIABLES
    instance,       \* per class: the static instance field (0: null, else the object)
    built,          \* per class: number of objects its constructor has completed
    outcome         \* the last new / getInstance(): what it found and what it gave

singleVars == <<instance, built, outcome>>

VARIABLES
    animationFrameId,       \* SceneManager.animationFrameId (0: null)
    requested,              \* the browser's list of pending animation frame callbacks
    handles,                \* the last handle requestAnimationFrame() returned
    isInitialized,          \* SceneManager.isInitialized
    scene,                  \* SceneManager.scene is set
    renderer,               \* SceneManager.renderer is set
    activeCamera,           \* SceneManager.activeCamera is set
    beforeRenderCallbacks,  \* SceneManager.beforeRenderCallbacks
    afterRenderCallbacks,   \* SceneManager.afterRenderCallbacks
    step,                   \* where render() is: "idle" between two frames
    log,                    \* what the frame that runs (or ran last) has done, in order
    appInitializing,        \* PortfolioApp.initialize() is between its awaits
    appIsInitialized,       \* PortfolioApp.isInitialized
    isRunning,              \* PortfolioApp.isRunning
    listening,              \* PortfolioApp.setupEventListeners() has run
    watch                   \* the last call on the loop, its events, and pause() since

loopVars == <<animationFrameId, requested, handles, isInitialized, scene, renderer,
              activeCamera, beforeRenderCallbacks, afterRenderCallbacks, step, log,
              appInitializing, appIsInitialized, isRunning, listening, watch>>

VARIABLES
    windowListeners,    \* the event listener list of window: [type, callback, owner]
    scrollUpdate,       \* the Set of EventBus.listeners for 'scroll:update'
    bound,              \* function objects made with bind() so far
    component,          \* per component: "none", "live" or "disposed"
    options,            \* CameraController: enableParallax, isScrollControlled
    fired               \* the event dispatched last and the components it reached

domVars == <<windowListeners, scrollUpdate, bound, component, options, fired>>

VARIABLES
    textures,       \* AssetManager.textures: name -> the texture cached (0: no entry)
    totalAssets,    \* AssetManager.totalAssets
    loadedAssets,   \* AssetManager.loadedAssets
    failedAssets,   \* AssetManager.failedAssets.length
    loading,        \* requests the loaders have not answered: [id, name, type]
    issued,         \* requests handed to the loaders so far
    assetSeen       \* the last AssetManager step: what it found and what it gave

assetVars == <<textures, totalAssets, loadedAssets, failedAssets, loading, issued, assetSeen>>

appVars == <<singleVars, loopVars, domVars, assetVars>>

vars == <<busVars, budget, perfVars, appVars>>

\* An EventBus step leaves the monitor and the application alone.
BusOnly == UNCHANGED <<budget, perfVars, appVars>>

Pairs == Events \X Handlers

Range(s) == {s[i] : i \in 1..Len(s)}

\* ---------------------------------------------------------------- Set
NoSet == [has |-> FALSE, data |-> <<>>]

SetAddDup(s, h) == Append(s, h)

\* Set.prototype.add: a member is not added twice.
SetAdd(s, h) == IF h \in Range(s) THEN s ELSE Append(s, h)

\* Set.prototype.delete
SetDelete(s, h) == SelectSeq(s, LAMBDA x : x # h)

\* Position of h in s, 0 when absent.
IndexOf(s, h) == IF h \in Range(s) THEN CHOOSE i \in 1..Len(s) : s[i] = h ELSE 0

\* map.has(event) ? map.get(event) : a new Set stored under event
GetOrCreate(map, event) == IF map[event].has THEN map[event].data ELSE <<>>

MapDeleteWholeSet(map, event, callback) == [map EXCEPT ![event] = NoSet]

\* map.has(event) and then map.get(event).delete(callback)
MapDeleteMember(map, event, callback) ==
    IF map[event].has
    THEN [map EXCEPT ![event] = [has |-> TRUE, data |-> SetDelete(@.data, callback)]]
    ELSE map

\* map.has(event) or map.set(event, new Set()), then map.get(event).add(callback)
MapAddMember(map, event, callback) ==
    [map EXCEPT ![event] = [has |-> TRUE, data |-> SetAdd(GetOrCreate(map, event), callback)]]

\* map.delete(event)
MapDelete(map, event) == [map EXCEPT ![event] = NoSet]

\* ---------------------------------------------------------------- frames
\* One frame per emit() that is dispatching.  phase/idx/live/snap are the
\* position of its forEach; cur is the callback it is running.  The rest
\* observes the dispatch: calls lists the callbacks invoked, threw is the
\* place in calls of the last one that threw (0: none), quiet says that no
\* callback has called into the bus, stale that cur was invoked after its
\* unsubscribe closure had run, dup that cur had already fired as a once
\* listener since it was registered, entry what the two registries of the
\* event held when emit() was entered.
NewFrame(event) ==
    [event |-> event, phase |-> "regular", idx |-> 0,
     live |-> listeners[event].has, snap |-> <<>>, cur |-> NoHandler,
     entry |-> [regular |-> listeners[event].data, once |-> onceListeners[event].data],
     calls |-> <<>>, quiet |-> TRUE, threw |-> 0,
     stale |-> FALSE, dup |-> FALSE]

\* The Set object the frame's forEach walks.
IterData(f) ==
    IF ~f.live THEN f.snap
    ELSE IF f.phase = "regular" THEN listeners[f.event].data
    ELSE onceListeners[f.event].data

NextMemberBackwards(data, idx) == data[Len(data) - idx]

\* forEach order: the member after the idx members already passed.
NextMember(data, idx) == data[idx + 1]

\* callback(data) inside the forEach of frame f.
Invoke(f, h) ==
    [f EXCEPT !.idx = @ + 1, !.cur = h,
              !.calls = Append(@, <<f.phase, h>>),
              !.stale = (handle[<<f.event, h>>] = "used"),
              !.dup = (f.phase = "once" /\ onceState[<<f.event, h>>] = "fired")]

Calling(f) == [ret |-> FALSE, frame |-> f, cleared |-> FALSE]
Returning(f, cleared) == [ret |-> TRUE, frame |-> f, cleared |-> cleared]

\* The forEach over onceListeners.get(event), then onceListeners.delete(event).
StepOnce(f) ==
    IF f.idx < Len(IterData(f))
    THEN Calling(Invoke(f, NextMember(IterData(f), f.idx)))
    ELSE Returning(f, TRUE)

\* emit() from the point where no callback is running up to the next
\* callback it invokes, or up to its return.
Step(f) ==
    IF f.phase = "once" THEN StepOnce(f)
    ELSE IF f.idx < Len(IterData(f))
    THEN Calling(Invoke(f, NextMember(IterData(f), f.idx)))
    ELSE IF onceListeners[f.event].has
    THEN StepOnce([f EXCEPT !.phase = "once", !.idx = 0, !.live = TRUE, !.snap = <<>>])
    ELSE Returning(f, FALSE)

\* A callback of frame f returned.
AfterReturn(f) == Step([f EXCEPT !.cur = NoHandler])

Propagate(f) == Returning([f EXCEPT !.cur = NoHandler, !.threw = Len(f.calls)], FALSE)

\* A callback of frame f threw: try/catch around callback(data) logs the
\* error and the forEach goes on.
AfterThrow(f) == Step([f EXCEPT !.cur = NoHandler, !.threw = Len(f.calls)])

\* Frames whose forEach walks the Set stored under event in the given map
\* keep the object when the map drops it.
Detach(stk, phase, event, data) ==
    [i \in 1..Len(stk) |->
        IF stk[i].live /\ stk[i].event = event /\ stk[i].phase = phase
        THEN [stk[i] EXCEPT !.live = FALSE, !.snap = data]
        ELSE stk[i]]

\* A member at position pos of a live Set was deleted: a forEach that had
\* passed it has one member fewer behind it.
Shift(stk, phase, event, pos) ==
    [i \in 1..Len(stk) |->
        IF stk[i].live /\ stk[i].event = event /\ stk[i].phase = phase
           /\ pos > 0 /\ pos <= stk[i].idx
        THEN [stk[i] EXCEPT !.idx = @ - 1]
        ELSE stk[i]]

\* A callback that is running called into the bus.
Disturb(stk) == [i \in 1..Len(stk) |-> [stk[i] EXCEPT !.quiet = FALSE]]

Dispatching(event) == \E i \in 1..Len(stack) : stack[i].event = event

\* Life of a once() registration when frame f has just invoked f.cur.
OnceAfterInvoke(os, f) ==
    IF f.phase = "once" /\ os[<<f.event, f.cur>>] \in {"armed", "inflight"}
    THEN [os EXCEPT ![<<f.event, f.cur>>] = "fired"]
    ELSE os

OnceAfterRemove(os, prs) ==
    [p \in Pairs |-> IF p \in prs /\ os[p] \in {"armed", "inflight"} THEN "removed" ELSE os[p]]

\* ---------------------------------------------------------------- EventBus
\* Calls come from the main program (empty stack) or from the callback the
\* top frame is running.
CanCall == ops < budget

\* What a call finds on entry: listenerCount(event), and whether callback is
\* a member of the persistent and of the once set of event.
Found(op, event, callback) ==
    [op |-> op, event |-> event, handler |-> callback,
     count |-> Len(listeners[event].data) + Len(onceListeners[event].data),
     inReg |-> callback \in Range(listeners[event].data),
     inOnce |-> callback \in Range(onceListeners[event].data)]

Other == [op |-> "other", event |-> "none", handler |-> NoHandler,
          count |-> 0, inReg |-> FALSE, inOnce |-> FALSE]

\* on(event, callback); the returned closure is () => this.off(event, callback)
On(event, callback) ==
    /\ BusOnly
    /\ CanCall
    /\ ops' = ops + 1
    /\ listeners' = MapAddMember(listeners, event, callback)
    /\ handle' = [handle EXCEPT ![<<event, callback>>] = "held"]
    /\ stack' = Disturb(stack)
    /\ last' = Found("on", event, callback)
    /\ UNCHANGED <<onceListeners, onceState>>

\* once(event, callback)
Once(event, callback) ==
    /\ BusOnly
    /\ CanCall
    /\ ops' = ops + 1
    /\ onceListeners' = MapAddMember(onceListeners, event, callback)
    /\ onceState' = [onceState EXCEPT ![<<event, callback>>] =
                        IF Dispatching(event) THEN "inflight" ELSE "armed"]
    /\ handle' = [handle EXCEPT ![<<event, callback>>] =
                        IF @ = "none" THEN "none" ELSE "void"]
    /\ stack' = Disturb(stack)
    /\ last' = Other
    /\ UNCHANGED listeners

\* The body of off(event, callback).
OffBody(event, callback) ==
    /\ listeners' = MapDeleteMember(listeners, event, callback)
    /\ onceListeners' = MapDeleteMember(onceListeners, event, callback)
    /\ stack' = Shift(Shift(Disturb(stack),
                            "regular", event, IndexOf(listeners[event].data, callback)),
                      "once", event, IndexOf(onceListeners[event].data, callback))
    /\ onceState' = OnceAfterRemove(onceState,
                        IF callback \in Range(onceListeners[event].data)
                        THEN {<<event, callback>>} ELSE {})

\* off(event, callback) called directly
Off(event, callback) ==
    /\ BusOnly
    /\ CanCall
    /\ ops' = ops + 1
    /\ OffBody(event, callback)
    /\ last' = Other
    /\ UNCHANGED handle

\* The closure returned by on(event, callback) is called.
Unsubscribe(event, callback) ==
    /\ BusOnly
    /\ CanCall
    /\ handle[<<event, callback>>] # "none"
    /\ ops' = ops + 1
    /\ OffBody(event, callback)
    /\ handle' = [handle EXCEPT ![<<event, callback>>] = IF @ = "held" THEN "used" ELSE @]
    /\ last' = Found("unsubscribe", event, callback)

\* clear(event)
Clear(event) ==
    /\ BusOnly
    /\ CanCall
    /\ ops' = ops + 1
    /\ listeners' = MapDelete(listeners, event)
    /\ onceListeners' = MapDelete(onceListeners, event)
    /\ stack' = Detach(Detach(Disturb(stack),
                              "regular", event, listeners[event].data),
                       "once", event, onceListeners[event].data)
    /\ onceState' = OnceAfterRemove(onceState,
                        {<<event, h>> : h \in Range(onceListeners[event].data)})
    /\ last' = Other
    /\ UNCHANGED handle

RECURSIVE DetachAll(_, _)
DetachAll(stk, evs) ==
    IF evs = {} THEN stk
    ELSE LET e == CHOOSE x \in evs : TRUE
         IN DetachAll(Detach(Detach(stk, "regular", e, listeners[e].data),
                             "once", e, onceListeners[e].data),
                      evs \ {e})

\* clearAll()
ClearAll ==
    /\ BusOnly
    /\ CanCall
    /\ ops' = ops + 1
    /\ listeners' = [e \in Events |-> NoSet]
    /\ onceListeners' = [e \in Events |-> NoSet]
    /\ stack' = DetachAll(Disturb(stack), Events)
    /\ onceState' = OnceAfterRemove(onceState,
                        {p \in Pairs : p[2] \in Range(onceListeners[p[1]].data)})
    /\ last' = Other
    /\ UNCHANGED handle

KeepOnce(map, event) == map

\* this.onceListeners.delete(event) at the end of emit()
DeleteOnce(map, event) == MapDelete(map, event)

\* What the bus and the stack below look like once a dispatch step r of the
\* top frame is taken: the frame goes on with its next callback, or emit()
\* returns (after onceListeners.delete(event) when it walked the once set).
Proceed(below, r) ==
    IF r.ret
    THEN /\ stack' = (IF r.cleared
                      THEN Detach(below, "once", r.frame.event,
                                  onceListeners[r.frame.event].data)
                      ELSE below)
         /\ onceListeners' = (IF r.cleared
                              THEN DeleteOnce(onceListeners, r.frame.event)
                              ELSE onceListeners)
         /\ UNCHANGED onceState
    ELSE /\ stack' = Append(below, r.frame)
         /\ onceState' = OnceAfterInvoke(onceState, r.frame)
         /\ UNCHANGED onceListeners

\* emit(event, data): up to its first callback, or its return when there is none.
Emit(event) ==
    /\ BusOnly
    /\ CanCall
    /\ Len(stack) < MaxDepth
    /\ ops' = ops + 1
    /\ Proceed(Disturb(stack), Step(NewFrame(event)))
    /\ last' = Found("emit", event, NoHandler)
    /\ UNCHANGED <<listeners, handle>>

\* emit(event, data) called by the main program only.
EmitTop(event) ==
    /\ stack = <<>>
    /\ Emit(event)

Top == stack[Len(stack)]
Below == SubSeq(stack, 1, Len(stack) - 1)

\* The running callback returns.
HandlerReturn ==
    /\ BusOnly
    /\ stack # <<>>
    /\ Proceed(Below, AfterReturn(Top))
    /\ last' = Other
    /\ UNCHANGED <<listeners, ops, handle>>

\* The running callback throws.
HandlerThrow ==
    /\ BusOnly
    /\ stack # <<>>
    /\ Proceed(Below, AfterThrow(Top))
    /\ last' = Other
    /\ UNCHANGED <<listeners, ops, handle>>

listenerCountRegularOnly(event) ==
    IF listeners[event].has THEN Len(listeners[event].data) ELSE 0

\* listenerCount(event): the value it returns
listenerCount(event) ==
    LET regularCount == IF listeners[event].has THEN Len(listeners[event].data) ELSE 0
        onceCount == IF onceListeners[event].has THEN Len(onceListeners[event].data) ELSE 0
    IN regularCount + onceCount

\* A call of listenerCount(event); it is no mutation, so it is free.
ListenerCount(event) ==
    /\ BusOnly
    /\ last' = [Found("listenerCount", event, NoHandler) EXCEPT !.count = listenerCount(event)]
    /\ UNCHANGED <<listeners, onceListeners, stack, ops, handle, onceState>>

BusInit ==
    /\ listeners = [e \in Events |-> NoSet]
    /\ onceListeners = [e \in Events |-> NoSet]
    /\ stack = <<>>
    /\ ops = 0
    /\ handle = [p \in Pairs |-> "none"]
    /\ onceState = [p \in Pairs |-> "none"]
    /\ last = Other

BusCalls ==
    \/ \E e \in Events, h \in Handlers : On(e, h)
    \/ \E e \in Events, h \in Handlers : Once(e, h)
    \/ \E e \in Events, h \in Handlers : Off(e, h)
    \/ \E e \in Events, h \in Handlers : Unsubscribe(e, h)
    \/ \E e \in Events : Clear(e)
    \/ ClearAll
    \/ \E e \in Events : ListenerCount(e)
    \/ HandlerReturn
    \/ HandlerThrow


\* ---------------------------------------------------------------- PerformanceMonitor
targetFPS == 60
minAcceptableFPS == 30
fpsUpdateInterval == 1000
maxFrameTimeSamples == 60

\* this.qualityLevels; pixelRatio in tenths
qualityLevels ==
    [HIGH |-> [pixelRatio |-> 20, shadows |-> TRUE, particles |-> 1000, antialiasing |-> TRUE],
     MEDIUM |-> [pixelRatio |-> 15, shadows |-> TRUE, particles |-> 500, antialiasing |-> TRUE],
     LOW |-> [pixelRatio |-> 10, shadows |-> FALSE, particles |-> 200, antialiasing |-> FALSE]]

Levels == DOMAIN qualityLevels

\* Names that qualityLevels, an object literal, answers through its
\* prototype (Object.prototype.constructor, toString, ...); one stands for all.
Inherited == {"constructor"}

\* What a caller may hand to setQuality(): the levels, an inherited name and
\* a name that is no property at all.
QualityInputs == Levels \cup Inherited \cup {"ULTRA"}

Undefined == [undefined |-> TRUE]

\* this.qualityLevels[quality]
Property(quality) ==
    IF quality \in Levels THEN qualityLevels[quality]
    ELSE IF quality \in Inherited THEN [inherited |-> quality]
    ELSE Undefined

\* The cost of a frame as the clock shows it: ms from the end of a frame to
\* the begin of the next, and ms from begin() to end().
Loads ==
    [fast |-> [gap |-> 11, work |-> 5],
     edge |-> [gap |-> 0, work |-> 16],
     mid |-> [gap |-> 5, work |-> 20],
     throttled |-> [gap |-> 40, work |-> 10],
     slow |-> [gap |-> 10, work |-> 40]]

RoundDown(n, d) == n \div d

\* Math.round(n / d) for n >= 0, d > 0
Round(n, d) == (2 * n + d) \div (2 * d)

RECURSIVE Sum(_)
\* frameTimes.reduce((a, b) => a + b, 0)
Sum(s) == IF s = <<>> THEN 0 ELSE Head(s) + Sum(Tail(s))

\* getAverageFrameTime(): sum / length as the fraction [num, den]; 0 for no
\* samples
getAverageFrameTime(times) ==
    IF Len(times) = 0 THEN [num |-> 0, den |-> 1]
    ELSE [num |-> Sum(times), den |-> Len(times)]

\* getAverageFrameTime() > ms, and getAverageFrameTime() < ms; the average
\* is 0 for no samples, else sum / length
AverageAbove(times, ms) == Len(times) > 0 /\ Sum(times) > ms * Len(times)
AverageBelow(times, ms) == Len(times) = 0 \/ Sum(times) < ms * Len(times)

\* The 'performance:quality-changed' event with its payload; current is
\* what getQuality() answers while the subscribers receive it.
QualityChanged(quality, current) ==
    [name |-> "performance:quality-changed", quality |-> quality,
     settings |-> Property(quality), current |-> current]

FpsUpdate(value) == [name |-> "performance:fps", fps |-> value]

Unchanged(cur) == [quality |-> cur, events |-> <<>>]

\* setQuality(quality) with this.currentQuality = cur: the level it leaves
\* and the events it emits
setQualityEmitFirst(cur, quality) ==
    IF Property(quality) = Undefined
    THEN Unchanged(cur)
    ELSE [quality |-> quality, events |-> <<QualityChanged(quality, cur)>>]

setQualityNeighbour(cur, quality) ==
    IF Property(quality) = Undefined \/ {cur, quality} = {"LOW", "HIGH"}
    THEN Unchanged(cur)
    ELSE [quality |-> quality, events |-> <<QualityChanged(quality, quality)>>]

setQuality(cur, quality) ==
    IF Property(quality) = Undefined
    THEN Unchanged(cur)
    ELSE [quality |-> quality, events |-> <<QualityChanged(quality, quality)>>]

DowngradeToLow(cur, currentFPS, times) ==
    IF currentFPS < minAcceptableFPS /\ AverageAbove(times, 33)
    THEN IF cur = "HIGH" THEN setQuality(cur, "LOW")
         ELSE IF cur = "MEDIUM" THEN setQuality(cur, "LOW")
         ELSE Unchanged(cur)
    ELSE Unchanged(cur)

DowngradeHighOnly(cur, currentFPS, times) ==
    IF currentFPS < minAcceptableFPS /\ AverageAbove(times, 33)
    THEN IF cur = "HIGH" THEN setQuality(cur, "MEDIUM")
         ELSE Unchanged(cur)
    ELSE Unchanged(cur)

DowngradeFpsOnly(cur, currentFPS, times) ==
    IF currentFPS < minAcceptableFPS
    THEN IF cur = "HIGH" THEN setQuality(cur, "MEDIUM")
         ELSE IF cur = "MEDIUM" THEN setQuality(cur, "LOW")
         ELSE Unchanged(cur)
    ELSE Unchanged(cur)

\* the downgrade branch of adjustQuality()
Downgrade(cur, currentFPS, times) ==
    IF currentFPS < minAcceptableFPS /\ AverageAbove(times, 33)
    THEN IF cur = "HIGH" THEN setQuality(cur, "MEDIUM")
         ELSE IF cur = "MEDIUM" THEN setQuality(cur, "LOW")
         ELSE Unchanged(cur)
    ELSE Unchanged(cur)

UpgradeFpsOnly(cur, currentFPS, times) ==
    IF currentFPS >= targetFPS
    THEN IF cur = "LOW" THEN setQuality(cur, "MEDIUM")
         ELSE IF cur = "MEDIUM" THEN setQuality(cur, "HIGH")
         ELSE Unchanged(cur)
    ELSE Unchanged(cur)

UpgradeToHigh(cur, currentFPS, times) ==
    IF currentFPS >= targetFPS /\ AverageBelow(times, 16)
    THEN IF cur = "LOW" THEN setQuality(cur, "HIGH")
         ELSE IF cur = "MEDIUM" THEN setQuality(cur, "HIGH")
         ELSE Unchanged(cur)
    ELSE Unchanged(cur)

\* the upgrade branch of adjustQuality()
Upgrade(cur, currentFPS, times) ==
    IF currentFPS >= targetFPS /\ AverageBelow(times, 16)
    THEN IF cur = "LOW" THEN setQuality(cur, "MEDIUM")
         ELSE IF cur = "MEDIUM" THEN setQuality(cur, "HIGH")
         ELSE Unchanged(cur)
    ELSE Unchanged(cur)

\* adjustQuality(): the downgrade branch, then the upgrade branch on what
\* the first left
adjustQuality(cur, currentFPS, times) ==
    LET down == Downgrade(cur, currentFPS, times)
        up == Upgrade(down.quality, currentFPS, times)
    IN [quality |-> up.quality, events |-> down.events \o up.events]

EvaluateAlways(auto, cur, currentFPS, times) == adjustQuality(cur, currentFPS, times)

\* end(): if (this.autoQualityAdjust) this.adjustQuality()
Evaluate(auto, cur, currentFPS, times) ==
    IF auto THEN adjustQuality(cur, currentFPS, times) ELSE Unchanged(cur)

PushedNoShift(times, t) == Append(times, t)

\* frameTimes.push(frameTime), and shift() past maxFrameTimeSamples
Pushed(times, t) ==
    LET all == Append(times, t)
    IN IF Len(all) > maxFrameTimeSamples THEN Tail(all) ELSE all

NoEval == [op |-> "none", arg |-> "none", evaluated |-> FALSE, adjusted |-> FALSE,
           from |-> "HIGH", count |-> 0, elapsed |-> 0, fps |-> 0, sum |-> 0, n |-> 0, evals |-> 0, downs |-> 0, origin |-> "HIGH"]

\* The monitor leaves the bus registry alone (its emits are kept in emitted).
PerfOnly == UNCHANGED <<busVars, budget, appVars>>

\* begin(), gap ms after the frame before
Begin ==
    /\ PerfOnly
    /\ pc = "idle"
    /\ seen.evals < MaxEvals
    /\ now' = now + load.gap
    /\ beginTime' = now'
    /\ pc' = "frame"
    /\ emitted' = <<>>
    /\ seen' = [NoEval EXCEPT !.op = "begin", !.evals = seen.evals,
                              !.downs = seen.downs, !.origin = seen.origin]
    /\ UNCHANGED <<load, fps, frameTime, lastTime, frames, lastFpsUpdate,
                   currentQuality, autoQualityAdjust, frameTimes, durations>>

\* end(), work ms after begin()
End ==
    /\ PerfOnly
    /\ pc = "frame"
    /\ LET currentTime == now + load.work
           times == Pushed(frameTimes, currentTime - beginTime)
           due == currentTime - lastFpsUpdate >= fpsUpdateInterval
           newFps == Round((frames + 1) * 1000, currentTime - lastFpsUpdate)
           adj == Evaluate(autoQualityAdjust, currentQuality, newFps, times)
           qualifies == newFps < minAcceptableFPS /\ AverageAbove(times, 33)
       IN /\ now' = currentTime
          /\ frameTime' = currentTime - beginTime
          /\ frameTimes' = times
          /\ durations' = Append(durations, currentTime - beginTime)
          /\ lastTime' = currentTime
          /\ IF due
             THEN /\ fps' = newFps
                  /\ frames' = 0
                  /\ lastFpsUpdate' = currentTime
                  /\ currentQuality' = adj.quality
                  /\ emitted' = adj.events \o <<FpsUpdate(newFps)>>
                  /\ seen' = [op |-> "end", arg |-> "none", evaluated |-> TRUE,
                              adjusted |-> autoQualityAdjust, from |-> currentQuality,
                              count |-> frames + 1,
                              elapsed |-> currentTime - lastFpsUpdate,
                              fps |-> newFps, sum |-> Sum(times), n |-> Len(times),
                              evals |-> seen.evals + 1,
                              downs |-> IF autoQualityAdjust /\ qualifies
                                        THEN seen.downs + 1 ELSE 0,
                              origin |-> IF seen.downs = 0 THEN currentQuality
                                         ELSE seen.origin]
             ELSE /\ frames' = frames + 1
                  /\ emitted' = <<>>
                  /\ seen' = [seen EXCEPT !.op = "end"]
                  /\ UNCHANGED <<fps, lastFpsUpdate, currentQuality>>
    /\ pc' = "idle"
    /\ UNCHANGED <<load, beginTime, autoQualityAdjust>>

\* setQuality(quality) from the control surface, between two frames
SetQuality(quality) ==
    /\ PerfOnly
    /\ pc = "idle"
    /\ currentQuality' = setQuality(currentQuality, quality).quality
    /\ emitted' = setQuality(currentQuality, quality).events
    /\ seen' = [NoEval EXCEPT !.op = "setQuality", !.arg = quality,
                              !.from = currentQuality, !.evals = seen.evals]
    /\ UNCHANGED <<now, load, pc, fps, frameTime, lastTime, frames, lastFpsUpdate,
                   beginTime, autoQualityAdjust, frameTimes, durations>>

\* setAutoQualityAdjust(enabled)
SetAutoQualityAdjust(enabled) ==
    /\ PerfOnly
    /\ pc = "idle"
    /\ autoQualityAdjust' = enabled
    /\ emitted' = <<>>
    /\ seen' = [NoEval EXCEPT !.op = "setAutoQualityAdjust",
                              !.arg = IF enabled THEN "true" ELSE "false",
                              !.evals = seen.evals]
    /\ UNCHANGED <<now, load, pc, fps, frameTime, lastTime, frames, lastFpsUpdate,
                   beginTime, currentQuality, frameTimes, durations>>

\* Time in which no frame runs, beyond the gap of the load: the page is
\* busy, or the loop is stopped.
Stalls == {45}
Pauses == {2000}

\* ms pass with no frame; once between two frames.
Wait(ms) ==
    /\ PerfOnly
    /\ pc = "idle"
    /\ now = lastTime
    /\ now' = now + ms
    /\ UNCHANGED <<load, pc, fps, frameTime, lastTime, frames, lastFpsUpdate, beginTime,
                   currentQuality, autoQualityAdjust, frameTimes, emitted, seen, durations>>

\* The cost of the frames changes; followed from one evaluation to the next.
SwitchLoad(l) ==
    /\ PerfOnly
    /\ pc = "idle"
    /\ frames = 0
    /\ load # Loads[l]
    /\ load' = Loads[l]
    /\ UNCHANGED <<now, pc, fps, frameTime, lastTime, frames, lastFpsUpdate, beginTime,
                   currentQuality, autoQualityAdjust, frameTimes, emitted, seen, durations>>

\* The monitor as its constructor leaves it, at time 0; beginTime is not
\* set before the first begin().
PerfInit ==
    /\ now = 0
    /\ pc = "idle"
    /\ fps = 60
    /\ frameTime = 0
    /\ lastTime = 0
    /\ frames = 0
    /\ lastFpsUpdate = 0
    /\ beginTime = -1
    /\ currentQuality = "HIGH"
    /\ autoQualityAdjust = TRUE
    /\ frameTimes = <<>>
    /\ durations = <<>>
    /\ emitted = <<>>
    /\ seen = NoEval

\* ---------------------------------------------------------------- singletons
Classes == {"EventBus", "PerformanceMonitor", "SceneManager", "AssetManager"}

\* The getInstance() calls a constructor makes, in their order.
Dependencies(class) ==
    IF class = "PerformanceMonitor" THEN <<"EventBus">>
    ELSE IF class = "SceneManager" THEN <<"PerformanceMonitor", "EventBus">>
    ELSE IF class = "AssetManager" THEN <<"EventBus">>
    ELSE <<>>

\* if (X.instance) throw new Error('X is a singleton. Use getInstance()')
ConstructorThrows(st, class) == st.instance[class] # 0

RECURSIVE Construct(_, _), getInstance(_, _), GetAll(_, _)

\* The constructor body of a class, past its guard: the getInstance() calls
\* of its dependencies; the object is the next one of its class.
Construct(st, class) ==
    LET after == GetAll(st, Dependencies(class))
    IN [after EXCEPT !.built[class] = @ + 1]

\* static getInstance(): if (!X.instance) X.instance = new X(); the value
\* returned is instance[class] of the result.
getInstance(st, class) ==
    IF st.instance[class] = 0
    THEN LET made == Construct(st, class)
         IN [made EXCEPT !.instance[class] = made.built[class]]
    ELSE st

\* getInstance() of each class of a list, in order
GetAll(st, classes) ==
    IF classes = <<>> THEN st
    ELSE GetAll(getInstance(st, Head(classes)), Tail(classes))

Statics == [instance |-> instance, built |-> built]

SingleOnly == UNCHANGED <<busVars, budget, perfVars, loopVars, domVars, assetVars>>

\* new X() from anywhere in the program
New(class) ==
    /\ SingleOnly
    /\ built[class] < MaxBuilt
    /\ IF ConstructorThrows(Statics, class)
       THEN /\ outcome' = [op |-> "new", class |-> class, before |-> built[class],
                           threw |-> TRUE, object |-> 0]
            /\ UNCHANGED <<instance, built>>
       ELSE LET made == Construct(Statics, class)
            IN /\ instance' = made.instance
               /\ built' = made.built
               /\ outcome' = [op |-> "new", class |-> class, before |-> built[class],
                              threw |-> FALSE, object |-> made.built[class]]

\* X.getInstance() from anywhere in the program
GetInstance(class) ==
    /\ SingleOnly
    /\ built[class] < MaxBuilt
    /\ LET got == getInstance(Statics, class)
       IN /\ instance' = got.instance
          /\ built' = got.built
          /\ outcome' = [op |-> "getInstance", class |-> class, before |-> built[class],
                         threw |-> FALSE, object |-> got.instance[class]]

SingleInit ==
    /\ instance = [c \in Classes |-> 0]
    /\ built = [c \in Classes |-> 0]
    /\ outcome = [op |-> "none", class |-> "none", before |-> 0, threw |-> FALSE, object |-> 0]

\* ---------------------------------------------------------------- AssetManager
AssetNames == {"a", "b"}
AssetTypes == {"texture", "cube-texture"}

AssetOnly == UNCHANGED <<busVars, budget, perfVars, singleVars, loopVars, domVars>>

\* What an AssetManager step finds on entry and what it gives: the texture a
\* load call resolves to at once (0: none, the promise is pending), whether
\* it handed a request to a loader, and the event it emitted.
AssetStep(op, name, resolved, request, event) ==
    [op |-> op, name |-> name, resolved |-> resolved, request |-> request,
     event |-> event, cached |-> textures[name],
     total |-> totalAssets, loaded |-> loadedAssets]

\* loadTexture(name, url, options) / loadCubeTexture(name, urls)
Load(type, name) ==
    /\ AssetOnly
    /\ IF textures[name] # 0
       THEN /\ assetSeen' = AssetStep("load", name, textures[name], FALSE, "none")
            /\ UNCHANGED <<textures, totalAssets, loadedAssets, failedAssets, loading, issued>>
       ELSE /\ issued < MaxLoads
            /\ totalAssets' = totalAssets + 1
            /\ issued' = issued + 1
            /\ loading' = loading \cup {[id |-> issued + 1, name |-> name, type |-> type]}
            /\ assetSeen' = AssetStep("load", name, 0, TRUE, "none")
            /\ UNCHANGED <<textures, loadedAssets, failedAssets>>

loadTexture(name) == Load("texture", name)

loadCubeTexture(name) == Load("cube-texture", name)

\* onLoad of a request: the texture is cached and counted.
LoadSuccess(r) ==
    /\ AssetOnly
    /\ r \in loading
    /\ loading' = loading \ {r}
    /\ textures' = [textures EXCEPT ![r.name] = r.id]
    /\ loadedAssets' = loadedAssets + 1
    /\ assetSeen' = AssetStep("loaded", r.name, r.id, FALSE,
                              IF r.type = "texture" THEN "asset:texture-loaded"
                              ELSE "asset:cube-texture-loaded")
    /\ UNCHANGED <<totalAssets, failedAssets, issued>>

\* onError of a request
LoadError(r) ==
    /\ AssetOnly
    /\ r \in loading
    /\ loading' = loading \ {r}
    /\ failedAssets' = failedAssets + 1
    /\ assetSeen' = AssetStep("failed", r.name, 0, FALSE, "asset:load-error")
    /\ UNCHANGED <<textures, totalAssets, loadedAssets, issued>>

\* clearAll(): the caches are emptied and the counters reset; the requests
\* the loaders hold stay with them.
clearAll ==
    /\ textures' = [n \in AssetNames |-> 0]
    /\ totalAssets' = 0
    /\ loadedAssets' = 0
    /\ failedAssets' = 0
    /\ assetSeen' = AssetStep("clearAll", CHOOSE n \in AssetNames : TRUE, 0, FALSE,
                              "asset:all-cleared")
    /\ UNCHANGED <<loading, issued>>

\* assetManager.clearAll() called by the program
AssetClearAll ==
    /\ AssetOnly
    /\ clearAll

\* getProgress(): the percentage it returns, as a fraction
getProgress ==
    IF totalAssets = 0 THEN [num |-> 100, den |-> 1]
    ELSE [num |-> loadedAssets * 100, den |-> totalAssets]

AssetInit ==
    /\ textures = [n \in AssetNames |-> 0]
    /\ totalAssets = 0
    /\ loadedAssets = 0
    /\ failedAssets = 0
    /\ loading = {}
    /\ issued = 0
    /\ assetSeen = [op |-> "none", name |-> "none", resolved |-> 0, request |-> FALSE,
                    event |-> "none", cached |-> 0, total |-> 0, loaded |-> 0]

\* ---------------------------------------------------------------- SceneManager
RenderCallbacks == {"cb"}

\* The fields of SceneManager that initialize/pause/resume/dispose work on,
\* with the browser's callback list and the events emitted so far by the
\* call that is running.
Manager ==
    [animationFrameId |-> animationFrameId, requested |-> requested, handles |-> handles,
     isInitialized |-> isInitialized, scene |-> scene, renderer |-> renderer,
     beforeRenderCallbacks |-> beforeRenderCallbacks,
     afterRenderCallbacks |-> afterRenderCallbacks, events |-> <<>>]

Emitting(sm, event) == [sm EXCEPT !.events = Append(@, event)]

\* this.animationFrameId = requestAnimationFrame(render)
RequestFrame(sm) ==
    [sm EXCEPT !.handles = @ + 1,
               !.requested = @ \cup {sm.handles + 1},
               !.animationFrameId = sm.handles + 1]

\* startRenderLoop(): its last line; render() runs when the frame comes
startRenderLoop(sm) == RequestFrame(sm)

\* pause()
pause(sm) ==
    IF sm.animationFrameId # 0
    THEN Emitting([sm EXCEPT !.requested = @ \ {sm.animationFrameId},
                             !.animationFrameId = 0], "scene:paused")
    ELSE sm

\* resume()
resume(sm) ==
    IF sm.animationFrameId = 0
    THEN Emitting(startRenderLoop(sm), "scene:resumed")
    ELSE sm

\* What can become of initialize(): it runs through, or the renderer
\* cannot be created, or setupResizeObserver() throws.
Outcomes == {"ok", "noRenderer", "noObserver"}

\* initialize(container, options)
initialize(sm, result) ==
    IF sm.isInitialized THEN sm
    ELSE IF result = "noRenderer" THEN Emitting(sm, "scene:error")
    ELSE IF result = "noObserver"
    THEN Emitting([sm EXCEPT !.renderer = TRUE, !.scene = TRUE], "scene:error")
    ELSE Emitting([startRenderLoop(sm) EXCEPT !.renderer = TRUE, !.scene = TRUE,
                                              !.isInitialized = TRUE],
                  "scene:initialized")

\* dispose()
dispose(sm) ==
    Emitting([pause(sm) EXCEPT !.renderer = FALSE,
                               !.beforeRenderCallbacks = <<>>,
                               !.afterRenderCallbacks = <<>>,
                               !.isInitialized = FALSE], "scene:disposed")

\* The variables take what a call has left in the fields.
Becomes(sm) ==
    /\ animationFrameId' = sm.animationFrameId
    /\ requested' = sm.requested
    /\ handles' = sm.handles
    /\ isInitialized' = sm.isInitialized
    /\ scene' = sm.scene
    /\ renderer' = sm.renderer
    /\ beforeRenderCallbacks' = sm.beforeRenderCallbacks
    /\ afterRenderCallbacks' = sm.afterRenderCallbacks

\* What the call just made means for the loop: pause() has returned and
\* the loop was not started since (halted); the callback ran in spite of it
\* (late).
Watched(op, sm, halted) ==
    [op |-> op, events |-> sm.events, halted |-> halted, late |-> watch.late]

\* A call comes from outside a frame or from a handler of 'scene:render'.
CanCallLoop == step \in {"idle", "handlers"} /\ handles < MaxHandles

LoopOnly == UNCHANGED <<busVars, budget, perfVars, singleVars, domVars, assetVars>>

AppSame == UNCHANGED <<appInitializing, appIsInitialized, isRunning, listening>>

\* sceneManager.initialize(container)
Initialize(result) ==
    /\ LoopOnly /\ AppSame
    /\ CanCallLoop
    /\ LET sm == initialize(Manager, result)
       IN /\ Becomes(sm)
          /\ watch' = Watched("initialize", sm,
                               watch.halted /\ sm.handles = handles)
    /\ UNCHANGED <<activeCamera, step, log>>

\* sceneManager.pause()
Pause ==
    /\ LoopOnly /\ AppSame
    /\ CanCallLoop
    /\ LET sm == pause(Manager)
       IN Becomes(sm) /\ watch' = Watched("pause", sm, TRUE)
    /\ UNCHANGED <<activeCamera, step, log>>

\* sceneManager.resume()
Resume ==
    /\ LoopOnly /\ AppSame
    /\ CanCallLoop
    /\ LET sm == resume(Manager)
       IN Becomes(sm) /\ watch' = Watched("resume", sm, FALSE)
    /\ UNCHANGED <<activeCamera, step, log>>

\* sceneManager.dispose()
Dispose ==
    /\ LoopOnly /\ AppSame
    /\ CanCallLoop
    /\ LET sm == dispose(Manager)
       IN Becomes(sm) /\ watch' = Watched("dispose", sm, TRUE)
    /\ UNCHANGED <<activeCamera, step, log>>

\* onBeforeRender(callback)
OnBeforeRender(cb) ==
    /\ LoopOnly /\ AppSame
    /\ CanCallLoop
    /\ Len(beforeRenderCallbacks) < MaxCallbacks
    /\ beforeRenderCallbacks' = Append(beforeRenderCallbacks, cb)
    /\ watch' = Watched("onBeforeRender", Manager, watch.halted)
    /\ UNCHANGED <<animationFrameId, requested, handles, isInitialized, scene, renderer,
                   activeCamera, afterRenderCallbacks, step, log>>

\* onAfterRender(callback)
OnAfterRender(cb) ==
    /\ LoopOnly /\ AppSame
    /\ CanCallLoop
    /\ Len(afterRenderCallbacks) < MaxCallbacks
    /\ afterRenderCallbacks' = Append(afterRenderCallbacks, cb)
    /\ watch' = Watched("onAfterRender", Manager, watch.halted)
    /\ UNCHANGED <<animationFrameId, requested, handles, isInitialized, scene, renderer,
                   activeCamera, beforeRenderCallbacks, step, log>>

\* The browser's callback list is run in the order of the requests.
Earliest(ids) == CHOOSE h \in ids : \A other \in ids : h <= other

\* The animation frame comes and the browser calls render(time): its first
\* line requests the frame after this one.
FrameStart ==
    /\ LoopOnly /\ AppSame
    /\ step = "idle"
    /\ requested # {}
    /\ handles < MaxHandles
    /\ Becomes(RequestFrame([Manager EXCEPT !.requested = @ \ {Earliest(requested)}]))
    /\ step' = "begin"
    /\ log' = <<>>
    /\ watch' = [op |-> "frame", events |-> <<>>, halted |-> watch.halted,
                 late |-> watch.halted]
    /\ UNCHANGED activeCamera

\* render(time) from the return of performanceMonitor.begin() to the call
\* of performanceMonitor.end(): the before-render callbacks, the render, the
\* after-render callbacks.  With a scene and a camera but no renderer,
\* this.renderer.render is a TypeError that ends render(); the run is not
\* followed past it.
FrameRender ==
    /\ LoopOnly /\ AppSame
    /\ step = "begin" /\ pc = "frame"
    /\ LET before == [i \in 1..Len(beforeRenderCallbacks) |-> "before"]
           after == [i \in 1..Len(afterRenderCallbacks) |-> "after"]
       IN IF scene /\ activeCamera /\ ~renderer
          THEN /\ log' = <<"begin">> \o before \o <<"TypeError">>
               /\ step' = "thrown"
          ELSE /\ log' = <<"begin">> \o before
                            \o (IF scene /\ activeCamera THEN <<"render">> ELSE <<>>)
                            \o after
               /\ step' = "end"
    /\ UNCHANGED <<animationFrameId, requested, handles, isInitialized, scene, renderer,
                   activeCamera, beforeRenderCallbacks, afterRenderCallbacks, watch>>

\* render(time) after performanceMonitor.end(): emit('scene:render'), which
\* calls PortfolioApp.update(time) when the application has subscribed; it
\* updates the camera controller and the components when isRunning.
FrameEmit ==
    /\ LoopOnly /\ AppSame
    /\ step = "end" /\ pc = "idle"
    /\ log' = log \o <<"end", "scene:render">>
                  \o (IF listening /\ isRunning THEN <<"update">> ELSE <<>>)
    /\ step' = "handlers"
    /\ watch' = [watch EXCEPT !.events = <<"scene:render">>]
    /\ UNCHANGED <<animationFrameId, requested, handles, isInitialized, scene, renderer,
                   activeCamera, beforeRenderCallbacks, afterRenderCallbacks>>

\* emit('scene:render') and with it render(time) return.
FrameDone ==
    /\ LoopOnly /\ AppSame
    /\ step = "handlers"
    /\ step' = "idle"
    /\ UNCHANGED <<animationFrameId, requested, handles, isInitialized, scene, renderer,
                   activeCamera, beforeRenderCallbacks, afterRenderCallbacks, log, watch>>

\* ---------------------------------------------------------------- PortfolioApp
\* What PortfolioApp.start/pause/resume work on.
Program == [sm |-> Manager, isRunning |-> isRunning, halted |-> watch.halted]

\* PortfolioApp.start()
appStart(app) ==
    IF app.isRunning THEN app
    ELSE [sm |-> Emitting(resume(app.sm), "app:started"), isRunning |-> TRUE,
          halted |-> FALSE]

\* PortfolioApp.pause()
appPause(app) ==
    IF ~app.isRunning THEN app
    ELSE [sm |-> Emitting(pause(app.sm), "app:paused"), isRunning |-> FALSE,
          halted |-> TRUE]

\* PortfolioApp.resume()
appResume(app) ==
    IF app.isRunning THEN app
    ELSE [sm |-> Emitting(resume(app.sm), "app:resumed"), isRunning |-> TRUE,
          halted |-> FALSE]

\* PortfolioApp.dispose(): pause(), sceneManager.dispose()
appDispose(app) ==
    [sm |-> dispose(appPause(app).sm), isRunning |-> FALSE, halted |-> TRUE]

\* A call of the application has left app.
Runs(op, app) ==
    /\ Becomes(app.sm)
    /\ isRunning' = app.isRunning
    /\ watch' = Watched(op, app.sm, app.halted)

\* PortfolioApp.initialize(container) up to its first await: the call of
\* sceneManager.initialize(), whose result it does not read.
AppInitializeBegin(result) ==
    /\ LoopOnly
    /\ CanCallLoop
    /\ ~appIsInitialized /\ ~appInitializing
    /\ LET sm == initialize(Manager, result)
       IN /\ Becomes(sm)
          /\ watch' = Watched("app.initialize", sm, watch.halted /\ sm.handles = handles)
    /\ appInitializing' = TRUE
    /\ UNCHANGED <<activeCamera, step, log, appIsInitialized, isRunning, listening>>

\* PortfolioApp.initialize(container) after its awaits: createCamera(),
\* setupLighting() (a TypeError without a scene, caught: 'app:error'),
\* setupEventListeners(), start().
AppInitializeFinish ==
    /\ LoopOnly
    /\ step = "idle" /\ handles < MaxHandles
    /\ appInitializing
    /\ appInitializing' = FALSE
    /\ activeCamera' = TRUE
    /\ IF ~scene
       THEN /\ watch' = Watched("app.initialized", Emitting(Manager, "app:error"),
                                watch.halted)
            /\ UNCHANGED <<animationFrameId, requested, handles, isInitialized, scene,
                           renderer, beforeRenderCallbacks, afterRenderCallbacks,
                           appIsInitialized, isRunning, listening>>
       ELSE /\ listening' = TRUE
            /\ appIsInitialized' = TRUE
            /\ LET app == appStart(Program)
               IN Runs("app.initialized", [app EXCEPT !.sm = Emitting(@, "app:initialized")])
    /\ UNCHANGED <<step, log>>

\* app.start()
AppStart ==
    /\ LoopOnly
    /\ CanCallLoop
    /\ Runs("app.start", appStart(Program))
    /\ UNCHANGED <<activeCamera, step, log, appInitializing, appIsInitialized, listening>>

\* app.pause()
AppPause ==
    /\ LoopOnly
    /\ CanCallLoop
    /\ Runs("app.pause", appPause(Program))
    /\ UNCHANGED <<activeCamera, step, log, appInitializing, appIsInitialized, listening>>

\* app.resume()
AppResume ==
    /\ LoopOnly
    /\ CanCallLoop
    /\ Runs("app.resume", appResume(Program))
    /\ UNCHANGED <<activeCamera, step, log, appInitializing, appIsInitialized, listening>>

\* app.dispose(): besides the loop it clears the asset manager, takes its
\* listeners off window and document and clears the event bus, which held
\* the subscription of update() to 'scene:render'.
AppDispose ==
    /\ UNCHANGED <<busVars, budget, perfVars, singleVars, domVars>>
    /\ CanCallLoop
    /\ Runs("app.dispose", appDispose(Program))
    /\ clearAll
    /\ appIsInitialized' = FALSE
    /\ listening' = FALSE
    /\ UNCHANGED <<activeCamera, step, log, appInitializing>>

\* The loop has run and was paused: no callback is pending.
Paused ==
    /\ requested = {} /\ step = "idle"
    /\ watch.halted
    /\ durations # <<>> /\ seen.evals = 0

\* 'visibilitychange' on the document: handleVisibilityChange()
VisibilityChange(hidden) ==
    /\ LoopOnly
    /\ step = "idle" /\ handles < MaxHandles
    /\ listening
    /\ Runs("visibilitychange", IF hidden THEN appPause(Program) ELSE appResume(Program))
    /\ UNCHANGED <<activeCamera, step, log, appInitializing, appIsInitialized, listening>>

LoopInit ==
    /\ animationFrameId = 0
    /\ requested = {}
    /\ handles = 0
    /\ isInitialized = FALSE
    /\ scene = FALSE
    /\ renderer = FALSE
    /\ activeCamera = FALSE
    /\ beforeRenderCallbacks = <<>>
    /\ afterRenderCallbacks = <<>>
    /\ step = "idle"
    /\ log = <<>>
    /\ appInitializing = FALSE
    /\ appIsInitialized = FALSE
    /\ isRunning = FALSE
    /\ listening = FALSE
    /\ watch = [op |-> "none", events |-> <<>>, halted |-> FALSE, late |-> FALSE]

\* ---------------------------------------------------------------- component listeners
Components == {"camera", "hero"}

\* this.handleX.bind(this): a function object that is no other one; they
\* are numbered as they are made.
Bind(n, owner) == [fn |-> n + 1, owner |-> owner]

\* window.addEventListener(type, callback): no second entry for a callback
\* the list holds for the type
addEventListener(list, type, callback) ==
    list \cup {[type |-> type, callback |-> callback]}

\* window.removeEventListener(type, callback): the entry of this very
\* function object, if there is one
removeEventListener(list, type, callback) ==
    list \ {[type |-> type, callback |-> callback]}

DomOnly == UNCHANGED <<busVars, budget, perfVars, singleVars, loopVars, assetVars>>

\* new CameraController(camera, options): setupEventListeners()
NewCameraController(parallax, scrollControlled) ==
    /\ DomOnly
    /\ component["camera"] = "none"
    /\ bound + 2 <= MaxBound
    /\ LET onMove == Bind(bound, "camera")
           onScroll == Bind(bound + (IF parallax THEN 1 ELSE 0), "camera")
           moving == IF parallax
                     THEN addEventListener(windowListeners, "mousemove", onMove)
                     ELSE windowListeners
       IN /\ windowListeners' = IF scrollControlled
                                 THEN addEventListener(moving, "scroll", onScroll)
                                 ELSE moving
          /\ bound' = bound + (IF parallax THEN 1 ELSE 0)
                             + (IF scrollControlled THEN 1 ELSE 0)
    /\ options' = [enableParallax |-> parallax, isScrollControlled |-> scrollControlled]
    /\ component' = [component EXCEPT !["camera"] = "live"]
    /\ UNCHANGED <<scrollUpdate, fired>>

\* CameraController.dispose()
CameraDispose ==
    /\ DomOnly
    /\ component["camera"] = "live"
    /\ bound + 2 <= MaxBound
    /\ LET onMove == Bind(bound, "camera")
           onScroll == Bind(bound + (IF options.enableParallax THEN 1 ELSE 0), "camera")
           moving == IF options.enableParallax
                     THEN removeEventListener(windowListeners, "mousemove", onMove)
                     ELSE windowListeners
       IN /\ windowListeners' = IF options.isScrollControlled
                                 THEN removeEventListener(moving, "scroll", onScroll)
                                 ELSE moving
          /\ bound' = bound + (IF options.enableParallax THEN 1 ELSE 0)
                             + (IF options.isScrollControlled THEN 1 ELSE 0)
    /\ component' = [component EXCEPT !["camera"] = "disposed"]
    /\ UNCHANGED <<scrollUpdate, options, fired>>

\* HeroScene.initialize() of the hero scene the application made (or, after
\* dispose(), once more): setupEventListeners()
HeroInitialize ==
    /\ DomOnly
    /\ component["hero"] # "live"
    /\ bound + 2 <= MaxBound
    /\ windowListeners' = addEventListener(windowListeners, "mousemove", Bind(bound, "hero"))
    /\ scrollUpdate' = scrollUpdate \cup {Bind(bound + 1, "hero")}
    /\ bound' = bound + 2
    /\ component' = [component EXCEPT !["hero"] = "live"]
    /\ UNCHANGED <<options, fired>>

\* HeroScene.dispose()
HeroDispose ==
    /\ DomOnly
    /\ component["hero"] = "live"
    /\ bound + 1 <= MaxBound
    /\ windowListeners' = removeEventListener(windowListeners, "mousemove",
                                              Bind(bound, "hero"))
    /\ bound' = bound + 1
    /\ component' = [component EXCEPT !["hero"] = "disposed"]
    /\ UNCHANGED <<scrollUpdate, options, fired>>

\* The browser dispatches 'mousemove' or 'scroll' on window.
WindowEvent(type) ==
    /\ DomOnly
    /\ fired' = [event |-> type,
                 reached |-> {l.callback.owner : l \in {x \in windowListeners : x.type = type}},
                 disposed |-> {c \in Components : component[c] = "disposed"}]
    /\ UNCHANGED <<windowListeners, scrollUpdate, bound, component, options>>

\* eventBus.emit('scroll:update', { scrollY })
ScrollUpdate ==
    /\ DomOnly
    /\ fired' = [event |-> "scroll:update",
                 reached |-> {f.owner : f \in scrollUpdate},
                 disposed |-> {c \in Components : component[c] = "disposed"}]
    /\ UNCHANGED <<windowListeners, scrollUpdate, bound, component, options>>

DomInit ==
    /\ windowListeners = {}
    /\ scrollUpdate = {}
    /\ bound = 0
    /\ component = [c \in Components |-> "none"]
    /\ options = [enableParallax |-> FALSE, isScrollControlled |-> FALSE]
    /\ fired = [event |-> "none", reached |-> {}, disposed |-> {}]

AppInit == SingleInit /\ LoopInit /\ DomInit /\ AssetInit

\* ---------------------------------------------------------------- specifications
Init == BusInit /\ budget = MaxOps /\ PerfInit /\ load = Loads.fast /\ AppInit

InitCore == BusInit /\ budget = MaxOpsCore /\ PerfInit /\ load = Loads.fast /\ AppInit

InitPerf ==
    /\ BusInit /\ budget = 0 /\ PerfInit /\ load \in {Loads[l] : l \in DOMAIN Loads}
    /\ AppInit

InitSingle == BusInit /\ budget = 0 /\ PerfInit /\ load = Loads.fast /\ AppInit

\* The program constructing its singletons, in any order.
NextSingle ==
    \/ \E c \in Classes : New(c)
    \/ \E c \in Classes : GetInstance(c)

SpecSingle == InitSingle /\ [][NextSingle]_vars

InitLoop == BusInit /\ budget = 0 /\ PerfInit /\ load = Loads.fast /\ AppInit

\* The render loop: the calls on SceneManager and PortfolioApp, and the
\* frames the browser runs, each with its begin() and end().
NextLoop ==
    \/ \E r \in Outcomes : Initialize(r)
    \/ Pause
    \/ Resume
    \/ Dispose
    \/ \E cb \in RenderCallbacks : OnBeforeRender(cb)
    \/ \E cb \in RenderCallbacks : OnAfterRender(cb)
    \/ \E r \in Outcomes : AppInitializeBegin(r)
    \/ AppInitializeFinish
    \/ AppStart
    \/ AppPause
    \/ AppResume
    \/ AppDispose
    \/ \E hidden \in BOOLEAN : VisibilityChange(hidden)
    \/ \E ms \in Pauses : (Paused /\ Wait(ms))
    \/ FrameStart
    \/ (step = "begin" /\ Begin)
    \/ FrameRender
    \/ (step = "end" /\ End)
    \/ FrameEmit
    \/ FrameDone

SpecLoop == InitLoop /\ [][NextLoop]_vars

InitDom == BusInit /\ budget = 0 /\ PerfInit /\ load = Loads.fast /\ AppInit

\* The components with their listeners, and the events that reach them.
NextDom ==
    \/ \E p, sc \in BOOLEAN : NewCameraController(p, sc)
    \/ CameraDispose
    \/ HeroInitialize
    \/ HeroDispose
    \/ \E t \in {"mousemove", "scroll"} : WindowEvent(t)
    \/ ScrollUpdate

SpecDom == InitDom /\ [][NextDom]_vars

InitAssets == BusInit /\ budget = 0 /\ PerfInit /\ load = Loads.fast /\ AppInit

\* The asset manager: the calls of the program and the answers of the loaders.
NextAssets ==
    \/ \E n \in AssetNames : loadTexture(n)
    \/ \E n \in AssetNames : loadCubeTexture(n)
    \/ \E r \in loading : LoadSuccess(r)
    \/ \E r \in loading : LoadError(r)
    \/ AssetClearAll

SpecAssets == InitAssets /\ [][NextAssets]_vars

NextPerf ==
    \/ Begin
    \/ End
    \/ \E q \in QualityInputs : SetQuality(q)
    \/ \E b \in BOOLEAN : SetAutoQualityAdjust(b)
    \/ \E l \in DOMAIN Loads : SwitchLoad(l)
    \/ \E ms \in Stalls : frames = 0 /\ Wait(ms)

SpecPerf == InitPerf /\ [][NextPerf]_vars

Next ==
    \/ BusCalls
    \/ \E e \in Events : Emit(e)

Spec == Init /\ [][Next]_vars

\* The bus driven by emit() calls of the main program only: no callback emits.
NextSeq ==
    \/ BusCalls
    \/ \E e \in Events : EmitTop(e)

SpecSeq == Init /\ [][NextSeq]_vars

\* The bus under on/once/off/emit alone.
NextCore ==
    \/ \E e \in Events, h \in Handlers : On(e, h)
    \/ \E e \in Events, h \in Handlers : Once(e, h)
    \/ \E e \in Events, h \in Handlers : Off(e, h)
    \/ \E e \in Events, h \in Handlers : Unsubscribe(e, h)
    \/ \E e \in Events : Emit(e)
    \/ HandlerReturn
    \/ HandlerThrow

SpecCore == InitCore /\ [][NextCore]_vars

\* ---------------------------------------------------------------- EventBus properties
Frames == {stack[i] : i \in 1..Len(stack)}

\* emit() returns: the top frame leaves the stack.
EmitReturns == stack # <<>> /\ Len(stack') < Len(stack)

\* The callbacks an emit(event) has to invoke when nothing touches the
\* registry while it runs: the persistent ones, then the once ones, each in
\* the order of registration.
ExpectedCalls(event) ==
    LET reg == listeners[event].data
        onc == onceListeners[event].data
    IN [i \in 1..(Len(reg) + Len(onc)) |->
            IF i <= Len(reg) THEN <<"regular", reg[i]>> ELSE <<"once", onc[i - Len(reg)]>>]

Distinct(s) == \A i, j \in 1..Len(s) : s[i] = s[j] => i = j

LiveRegistrations(event) ==
    {<<"regular", h>> : h \in Range(listeners[event].data)}
        \cup {<<"once", h>> : h \in Range(onceListeners[event].data)}

\* s without h, the others in their order.
Without(s, h) ==
    LET keep == {i \in 1..Len(s) : s[i] # h}
        F[n \in 0..Len(s)] ==
            IF n = 0 THEN <<>>
            ELSE IF n \in keep THEN Append(F[n - 1], s[n]) ELSE F[n - 1]
    IN F[Len(s)]

\* C1: once the unsubscribe closure returned by on(e, h) has run, and h has
\* not been registered for e since, no emit(e) invokes h: no running
\* callback was invoked after its closure had run.  (Checked under on, once,
\* off and emit alone: SpecCore.)
C1_NoFireAfterUnsubscribe == \A f \in Frames : ~f.stale

\* C2: with emits issued one after the other (SpecSeq), a handler registered
\* with once(e, h) fires once: it is never invoked a second time for one
\* registration; while no emit is running the registrations that have not
\* fired are exactly the members of the once registry; and when emit(e)
\* returns none of them is left waiting for e, so that a later emit(e) finds
\* nothing to invoke.
C2_OnceFiresOnceSequential ==
    /\ [](/\ \A f \in Frames : ~f.dup
          /\ stack = <<>> =>
                \A p \in Pairs : (onceState[p] = "armed")
                                    <=> (p[2] \in Range(onceListeners[p[1]].data)))
    /\ [][EmitReturns /\ Len(stack) = 1 =>
            \A h \in Handlers : /\ onceState'[<<Top.event, h>>] # "armed"
                                /\ h \notin Range(onceListeners'[Top.event].data)]_vars

\* C2 witness: an emit(e1) of the main program has just returned without
\* anything to dispatch, after h1 had fired as a once listener of e1.
C2_Witness ==
    /\ stack = <<>>
    /\ last.op = "emit" /\ last.event = "e1" /\ last.count = 0
    /\ onceState[<<"e1", "h1">>] = "fired"

\* C3: a handler registered with once(e, h) is invoked at most once, also
\* when emit(e) is called again from inside a callback of e: no running
\* callback is a once listener that had fired already since its registration.
C3_OnceAtMostOnceReentrant == \A f \in Frames : f.dup = FALSE

\* C4: a handler that throws does not stop the dispatch.  When an emit whose
\* callbacks did not touch the bus returns after one of them threw, it has
\* invoked every persistent and every once handler of the event, in order,
\* the once registry of the event is gone, and control is back in the caller
\* (one frame less, nothing unwound further).
C4_ThrowDoesNotStopDispatch ==
    [][(EmitReturns /\ Top.quiet /\ (Top.threw > 0 \/ HandlerThrow)) =>
            /\ Top.calls = ExpectedCalls(Top.event)
            /\ ~onceListeners'[Top.event].has
            /\ Len(stack') = Len(stack) - 1]_vars

\* C4 witness: the second of four callbacks threw, the two after it were
\* invoked all the same and the last one is running.
C4_Witness ==
    /\ stack # <<>>
    /\ Top.quiet /\ Top.threw = 2 /\ Len(Top.calls) = 4
    /\ Top.phase = "once" /\ Top.idx = Len(IterData(Top))

\* C5 (as claimed): a second on(e, h) of a handler that is registered
\* already adds a second registration, which listenerCount(e) counts.
C5_DuplicateOnAddsRegistration ==
    (last.op = "on" /\ last.inReg) => listenerCount(last.event) = last.count + 1

\* C5 (amended): a second on(e, h) of a handler that is registered already
\* changes nothing: the persistent registry holds h once, listenerCount(e)
\* counts it once, and an emit(e) whose callbacks leave the bus alone invokes
\* h once as a persistent handler.
C5_DuplicateOnIsSingleRegistration ==
    /\ (last.op = "on" /\ last.inReg) => listenerCount(last.event) = last.count
    /\ \A e \in Events : Distinct(listeners[e].data)
    /\ \A f \in Frames : f.quiet => Distinct(f.calls)

\* C5 witness: on("e1", h1) has just been called while h1 was the one
\* persistent handler of e1, and it still is.
C5_Witness ==
    /\ last.op = "on" /\ last.event = "e1" /\ last.handler = "h1"
    /\ last.inReg /\ last.count = 1
    /\ listeners["e1"].data = <<"h1">>

\* C6 (as claimed): the unsubscribe closure of on(e, h) leaves a separate
\* once(e, h) registration of the same handler in place.
C6_UnsubscribeKeepsOnceRegistration ==
    (last.op = "unsubscribe" /\ last.inOnce)
        => last.handler \in Range(onceListeners[last.event].data)

\* C6 (amended): the unsubscribe closure of on(e, h) is off(e, h): it takes
\* h out of the persistent and out of the once registry of e; the other
\* handlers of e keep their places and the other events are untouched.
C6_UnsubscribeRemovesHandlerOfEvent ==
    [][\A e \in Events, h \in Handlers : Unsubscribe(e, h) =>
            /\ listeners'[e] = [listeners[e] EXCEPT !.data = Without(@, h)]
            /\ onceListeners'[e] = [onceListeners[e] EXCEPT !.data = Without(@, h)]
            /\ \A e2 \in Events \ {e} :
                    listeners'[e2] = listeners[e2] /\ onceListeners'[e2] = onceListeners[e2]]_vars

\* C6 witness: the closure of on("e1", h1) has just run while h1 was in both
\* registries of e1; h2 is still registered for e1 and e2 still has a handler.
C6_Witness ==
    /\ last.op = "unsubscribe" /\ last.event = "e1" /\ last.handler = "h1"
    /\ last.inReg /\ last.inOnce
    /\ listeners["e1"].data = <<"h2">>
    /\ listeners["e2"].data # <<>>

\* C7: emit(e) invokes the persistent handlers of e in the order of their
\* registration and then the once handlers of e in the order of theirs;
\* when it returns the once registry of e is gone and the persistent
\* registries are what they were.  (Stated for an emit whose callbacks do
\* not call into the bus.)
C7_EmitOrderAndCleanup ==
    [][(EmitReturns /\ Top.quiet) =>
            /\ Top.calls = ExpectedCalls(Top.event)
            /\ onceListeners'[Top.event] = NoSet
            /\ listeners' = listeners]_vars

\* C7 witness: an emit is running the last of four callbacks; h2 was
\* registered before h1 as a persistent handler, h1 before h2 as a once one.
C7_Witness ==
    /\ stack # <<>>
    /\ Top.quiet
    /\ Top.calls = <<<<"regular", "h2">>, <<"regular", "h1">>,
                     <<"once", "h1">>, <<"once", "h2">>>>

\* C8: listenerCount(e) is the number of persistent registrations of e plus
\* the number of once registrations of e, in every state; and the value the
\* last call returned is that number for the registry as it is after the
\* call, which therefore the call did not change.
C8_ListenerCountIsLiveRegistrations ==
    /\ \A e \in Events : listenerCount(e) = Cardinality(LiveRegistrations(e))
    /\ last.op = "listenerCount"
            => last.count = Cardinality(LiveRegistrations(last.event))

\* C8 witness: listenerCount("e1") returned 3 in the middle of an emit.
C8_Witness ==
    /\ last.op = "listenerCount" /\ last.event = "e1" /\ last.count = 3
    /\ stack # <<>>
    /\ listeners["e1"].data # <<>> /\ onceListeners["e1"].data # <<>>


\* How often an emit has invoked h.
Invocations(calls, h) == Cardinality({i \in DOMAIN calls : calls[i][2] = h})

\* C24: a callback h that is in the persistent and in the once registry of
\* e is invoked twice by an emit(e), as a persistent handler and then as a
\* once handler, and is left in the persistent registry only; an emit(e)
\* that finds h in the persistent registry only invokes it once.  (Stated
\* for an emit whose callbacks do not call into the bus.)
C24_BothRegistriesFireBothOnce ==
    [][(EmitReturns /\ Top.quiet) =>
            \A h \in Handlers :
                LET e == Top.event
                    inReg == h \in Range(listeners[e].data)
                    inOnce == h \in Range(onceListeners[e].data)
                IN /\ (inReg /\ inOnce) =>
                        /\ Invocations(Top.calls, h) = 2
                        /\ \E i, j \in DOMAIN Top.calls :
                                /\ i < j
                                /\ Top.calls[i] = <<"regular", h>>
                                /\ Top.calls[j] = <<"once", h>>
                        /\ h \in Range(listeners'[e].data)
                        /\ h \notin Range(onceListeners'[e].data)
                   /\ (inReg /\ ~inOnce) => Invocations(Top.calls, h) = 1]_vars

\* C24 witness: h1, left in the persistent registry of e1 by an emit that
\* had invoked it from both, is being invoked by the emit after it, the
\* only callback of that emit.
C24_Witness ==
    /\ stack # <<>> /\ Top.quiet /\ Top.event = "e1"
    /\ Top.calls = <<<<"regular", "h1">>>>
    /\ onceState[<<"e1", "h1">>] = "fired"
    /\ listeners["e1"].data = <<"h1">>
    /\ onceListeners["e1"].data = <<>>

\* C25: emit(e) dispatches to the handlers of e as they were registered when
\* it was entered: every callback it invokes was then in the registry it is
\* invoked from (so a handler registered for e while emit(e) is in progress
\* is not invoked by that emit), and a once handler registered while emit(e)
\* is in progress, and neither invoked nor removed since, is in the once
\* registry of e, also after that emit has cleared it.
C25_EmitWalksEntryList ==
    /\ \A f \in Frames : \A i \in DOMAIN f.calls :
            f.calls[i][2] \in Range(f.entry[f.calls[i][1]])
    /\ \A p \in Pairs :
            (onceState[p] = "inflight") => p[2] \in Range(onceListeners[p[1]].data)

\* C26: getProgress() returns a percentage from 0 to 100 whatever the order
\* of the load calls, the answers of the loaders and clearAll(); and a load
\* call for a name that is in the cache resolves to the cached texture, hands
\* no request to a loader and leaves the counters as they were.
C26_ProgressIsPercentage ==
    /\ 0 <= getProgress.num /\ getProgress.num <= 100 * getProgress.den
    /\ (assetSeen.op = "load" /\ assetSeen.cached # 0) =>
            /\ assetSeen.resolved = assetSeen.cached
            /\ ~assetSeen.request
            /\ totalAssets = assetSeen.total /\ loadedAssets = assetSeen.loaded

\* C27: whatever calls are made on SceneManager and PortfolioApp, and
\* whatever visibility changes come, at most one render callback is pending,
\* so that a display refresh renders the scene once.
C27_AtMostOneLoop == Cardinality(requested) <= 1

\* C28: no frame calls render on a renderer that dispose() has released.
C28_NoRenderAfterDispose == step # "thrown" /\ "TypeError" \notin Range(log)

\* C29: the frame rate computed at an evaluation counts only the time in
\* which the loop was running: the time it divides by is the time the frames
\* it counts have taken, and with frames that come 16 ms apart the rate is
\* not below minAcceptableFPS, also after a pause() and a resume().
C29_PausedTimeIsNotCounted ==
    (seen.op = "end" /\ seen.evaluated) =>
        /\ seen.elapsed <= seen.count * (load.gap + load.work)
        /\ seen.fps >= minAcceptableFPS

\* C30: when the sceneManager.initialize() that PortfolioApp.initialize()
\* has called reported a failure, PortfolioApp.initialize() fails as well:
\* the application is neither initialized nor running, no render loop is
\* started, and 'app:error' is emitted, not 'app:initialized'.
C30_AppFailsWithSceneManager ==
    [][(/\ appInitializing /\ ~appInitializing'
        /\ watch.op = "app.initialize"
        /\ "scene:error" \in Range(watch.events)) =>
            /\ ~appIsInitialized' /\ ~isRunning'
            /\ requested' = requested
            /\ "app:error" \in Range(watch'.events)
            /\ "app:initialized" \notin Range(watch'.events)]_vars

\* ---------------------------------------------------------------- PerformanceMonitor properties
ClaimedLevels == {"LOW", "MEDIUM", "HIGH"}

Rank(q) == IF q = "LOW" THEN 1 ELSE IF q = "MEDIUM" THEN 2 ELSE 3

StepDown(q) == IF q = "HIGH" THEN "MEDIUM" ELSE "LOW"

QualityEvents == SelectSeq(emitted, LAMBDA ev : ev.name = "performance:quality-changed")

\* end() has just run adjustQuality().
JustAdjusted == seen.op = "end" /\ seen.evaluated /\ seen.adjusted

\* C9: one evaluation by end() that reaches adjustQuality() at one of the
\* levels LOW, MEDIUM, HIGH moves the level
\* by at most one step in LOW < MEDIUM < HIGH: from HIGH it stays or becomes
\* MEDIUM, from LOW it stays or becomes MEDIUM, and it changes the level at
\* most once (never down and then up).
C9_AutomaticTickMovesOneStep ==
    (JustAdjusted /\ seen.from \in ClaimedLevels) =>
        /\ currentQuality \in ClaimedLevels
        /\ Rank(currentQuality) - Rank(seen.from) \in {-1, 0, 1}
        /\ seen.from = "HIGH" => currentQuality \in {"HIGH", "MEDIUM"}
        /\ seen.from = "LOW" => currentQuality \in {"LOW", "MEDIUM"}
        /\ Len(QualityEvents) <= 1

\* C9 witness: an evaluation has just taken the level from HIGH to MEDIUM.
C9_Witness ==
    /\ JustAdjusted
    /\ seen.from = "HIGH" /\ currentQuality = "MEDIUM"
    /\ Len(QualityEvents) = 1

\* C10: with automatic adjustment on, an evaluation at one of the levels
\* LOW, MEDIUM, HIGH that finds fps < 30 and
\* a mean frame time above 33 ms takes the level down exactly one step and
\* leaves LOW where it is; from HIGH the first such evaluation gives MEDIUM
\* and the second in a row gives LOW.
C10_SlowEvaluationStepsDown ==
    (JustAdjusted /\ seen.from \in ClaimedLevels /\ seen.fps < 30 /\ seen.sum > 33 * seen.n) =>
        /\ currentQuality = StepDown(seen.from)
        /\ (seen.origin = "HIGH" /\ seen.downs = 1) => currentQuality = "MEDIUM"
        /\ (seen.origin = "HIGH" /\ seen.downs = 2) => currentQuality = "LOW"

\* C10 witness: the second slow evaluation in a row, begun at HIGH, has just
\* left the level at LOW.
C10_Witness ==
    /\ JustAdjusted /\ seen.fps < 30 /\ seen.sum > 33 * seen.n
    /\ seen.origin = "HIGH" /\ seen.downs = 2
    /\ seen.from = "MEDIUM" /\ currentQuality = "LOW"

StepUp(q) == IF q = "LOW" THEN "MEDIUM" ELSE "HIGH"

\* end() has just evaluated: the second is over, fps is recomputed.
JustEvaluated == seen.op = "end" /\ seen.evaluated

\* C11: with automatic adjustment on, an evaluation at one of the levels
\* LOW, MEDIUM, HIGH that finds fps >= 60 and a mean frame time below 16 ms
\* takes the level up exactly one step (LOW to MEDIUM, MEDIUM to HIGH) and
\* leaves HIGH where it is; at LOW, with every frame time of the window at
\* most 15 ms and fps >= 60, the evaluation gives MEDIUM.
C11_FastEvaluationStepsUp ==
    /\ (JustAdjusted /\ seen.from \in ClaimedLevels
            /\ seen.fps >= 60 /\ seen.sum < 16 * seen.n)
          => currentQuality = StepUp(seen.from)
    /\ (JustAdjusted /\ seen.from = "LOW" /\ seen.fps >= 60
            /\ \A i \in 1..Len(frameTimes) : frameTimes[i] <= 15)
          => currentQuality = "MEDIUM"

\* C11 witness: a fast evaluation has just taken the level from LOW to MEDIUM.
C11_Witness ==
    /\ JustAdjusted /\ seen.fps >= 60
    /\ frameTimes # <<>> /\ \A i \in 1..Len(frameTimes) : frameTimes[i] <= 15
    /\ seen.from = "LOW" /\ currentQuality = "MEDIUM"

\* C12: setAutoQualityAdjust(false) turns the flag off and only
\* setAutoQualityAdjust(true) turns it on again; while it is off no end()
\* changes the level or emits 'performance:quality-changed', whatever it
\* measures, and an end() that evaluates still stores the new fps, resets
\* the frame counter and emits 'performance:fps' with that fps.
C12_DisabledEvaluationKeepsLevel ==
    /\ []((seen.op = "setAutoQualityAdjust" /\ seen.arg = "false") => ~autoQualityAdjust)
    /\ [][(~autoQualityAdjust /\ autoQualityAdjust')
            => (seen'.op = "setAutoQualityAdjust" /\ seen'.arg = "true")]_vars
    /\ [][(pc = "frame" /\ pc' = "idle" /\ ~autoQualityAdjust) =>
            /\ currentQuality' = currentQuality
            /\ \A i \in 1..Len(emitted') : emitted'[i].name # "performance:quality-changed"
            /\ seen'.evaluated =>
                  /\ fps' = Round((frames + 1) * 1000, now' - lastFpsUpdate)
                  /\ frames' = 0
                  /\ emitted' = <<FpsUpdate(fps')>>]_vars

\* C12 witness: with the flag off an evaluation found fps < 30 and a mean
\* frame time above 33 ms at HIGH, and the level is still HIGH.
C12_Witness ==
    /\ JustEvaluated /\ ~seen.adjusted /\ ~autoQualityAdjust
    /\ seen.fps < 30 /\ seen.sum > 33 * seen.n
    /\ seen.from = "HIGH" /\ currentQuality = "HIGH"
    /\ emitted = <<FpsUpdate(fps)>>

\* C13: setQuality(level) with level one of LOW, MEDIUM, HIGH leaves the
\* monitor at exactly that level, whatever the level before, the measured
\* fps and frame times and the automatic flag, and emits one
\* 'performance:quality-changed' event carrying the level and its settings.
C13_ManualSetQualityIsUnconditional ==
    (seen.op = "setQuality" /\ seen.arg \in ClaimedLevels) =>
        /\ currentQuality = seen.arg
        /\ Len(emitted) = 1
        /\ emitted[1].name = "performance:quality-changed"
        /\ emitted[1].quality = seen.arg
        /\ emitted[1].settings = qualityLevels[seen.arg]

\* C13 witness: after an evaluation that measured fps >= 60, with the
\* automatic flag on, setQuality("LOW") took the level from HIGH to LOW.
C13_Witness ==
    /\ seen.op = "setQuality" /\ seen.arg = "LOW" /\ seen.from = "HIGH"
    /\ seen.evals >= 1 /\ fps >= 60 /\ autoQualityAdjust
    /\ currentQuality = "LOW"

\* C14: setQuality(x) with x none of LOW, MEDIUM, HIGH changes nothing and
\* emits nothing, so the active level is always one of LOW, MEDIUM, HIGH
\* and getQualitySettings() is the bundle of that level.
C14_UnrecognizedLevelIsNoOp ==
    /\ currentQuality \in ClaimedLevels
    /\ Property(currentQuality) = qualityLevels[currentQuality]
    /\ (seen.op = "setQuality" /\ seen.arg \notin ClaimedLevels)
          => (currentQuality = seen.from /\ emitted = <<>>)

\* C15: a call that changes the active level emits exactly one
\* 'performance:quality-changed' event; it carries the new level and the
\* settings of the new level, and getQuality() answers the new level while
\* the subscribers receive it.
C15_LevelChangeEmitsOneEvent ==
    [][currentQuality' # currentQuality =>
            LET changes == SelectSeq(emitted', LAMBDA ev :
                                ev.name = "performance:quality-changed")
            IN /\ Len(changes) = 1
               /\ changes[1].quality = currentQuality'
               /\ changes[1].settings = Property(currentQuality')
               /\ changes[1].current = currentQuality']_vars

\* C15 witness: the level went down to MEDIUM in an evaluation and
\* setQuality("HIGH") has just brought it back, with its event.
C15_Witness ==
    /\ seen.op = "setQuality" /\ seen.from = "MEDIUM" /\ seen.arg = "HIGH"
    /\ seen.evals >= 1
    /\ currentQuality = "HIGH"
    /\ Len(emitted) = 1 /\ emitted[1].current = "HIGH"

FoundSlow == seen.fps < 30 /\ seen.sum > 33 * seen.n
FoundFast == seen.fps >= 60 /\ seen.sum < 16 * seen.n

MostRecent(all, n) == SubSeq(all, Len(all) - n + 1, Len(all))

Least(a, b) == IF a <= b THEN a ELSE b

\* C22: the window holds at most 60 samples: the frame durations measured
\* last, min(n, 60) of the n measured so far, in arrival order; and
\* getAverageFrameTime() is their sum over their number, 0 for none.
C22_WindowIsMostRecentSixty ==
    LET kept == Least(Len(durations), 60)
    IN /\ Len(frameTimes) <= 60
       /\ frameTimes = MostRecent(durations, kept)
       /\ getAverageFrameTime(frameTimes) =
              IF kept = 0 THEN [num |-> 0, den |-> 1]
              ELSE [num |-> Sum(MostRecent(durations, kept)), den |-> kept]

\* C22 witness: more than 60 frames were measured, slow ones first; the
\* window holds 60 and its oldest sample is not the first one measured.
C22_Witness ==
    /\ Len(durations) > 60 /\ Len(frameTimes) = 60
    /\ durations[1] # durations[Len(durations)]
    /\ frameTimes[1] = durations[Len(durations) - 59]
    /\ frameTimes[1] # durations[1]

\* C23 as stated: end() evaluates only when 1000 ms or more have passed
\* since the evaluation before (or the construction), and then resets the
\* frame counter and starts the interval at the current time; the fps the
\* thresholds are compared with is frames * 1000 / elapsed itself: it is
\* below 30, and at least 60, exactly when that quotient is.
C23_ThresholdsUseExactQuotient ==
    JustEvaluated =>
        /\ seen.elapsed >= fpsUpdateInterval
        /\ frames = 0 /\ lastFpsUpdate = lastTime
        /\ (fps < 30) <=> (seen.count * 1000 < 30 * seen.elapsed)
        /\ (fps >= 60) <=> (seen.count * 1000 >= 60 * seen.elapsed)

\* C23 as the code has it: the same, with the fps that is stored, published
\* and compared being the quotient rounded to the nearest integer (a half
\* goes up); and an end() before the 1000 ms are over does not evaluate.
C23_ThresholdsUseRoundedQuotient ==
    /\ JustEvaluated =>
            /\ seen.elapsed >= fpsUpdateInterval
            /\ frames = 0 /\ lastFpsUpdate = lastTime
            /\ fps = seen.fps
            /\ 2 * fps * seen.elapsed - seen.elapsed <= 2 * seen.count * 1000
            /\ 2 * seen.count * 1000 < 2 * fps * seen.elapsed + seen.elapsed
            /\ emitted[Len(emitted)] = FpsUpdate(fps)
    /\ (seen.op = "end" /\ ~seen.evaluated) =>
            (frames > 0 /\ lastTime - lastFpsUpdate < fpsUpdateInterval)

\* C23 witness: 60 frames in 1005 ms, 59.7 frames a second, evaluated as
\* fps 60: the level went up from LOW.
C23_Witness ==
    /\ JustAdjusted /\ seen.count = 60 /\ seen.elapsed = 1005 /\ fps = 60
    /\ seen.from = "LOW" /\ currentQuality = "MEDIUM"

\* ---------------------------------------------------------------- singleton properties
\* C17: of each singleton class at most one object is ever constructed: a
\* new X() after an object of X exists throws, and getInstance() returns
\* the one object of its class.
C17_AtMostOneInstance ==
    /\ \A c \in Classes : built[c] <= 1
    /\ (outcome.op = "new" /\ outcome.before >= 1) => outcome.threw
    /\ outcome.op = "getInstance" => outcome.object = 1

\* ---------------------------------------------------------------- render loop properties
\* C18: once pause() has returned, render() is not called again until the
\* loop is started anew (no frame runs late); a pause() that finds no frame
\* pending and a resume() that finds one pending change nothing and emit
\* nothing; a resume() that finds none pending requests a frame under a
\* handle not used before.
C18_NoFrameAfterPause ==
    /\ [](~watch.late)
    /\ [][(watch' # watch /\ watch'.op = "pause" /\ animationFrameId = 0)
            => (Manager' = Manager /\ watch'.events = <<>>)]_vars
    /\ [][(watch' # watch /\ watch'.op = "resume" /\ animationFrameId # 0)
            => (Manager' = Manager /\ watch'.events = <<>>)]_vars
    /\ [][(watch' # watch /\ watch'.op = "resume" /\ animationFrameId = 0)
            => (/\ animationFrameId' > handles
                /\ animationFrameId' \in requested'
                /\ watch'.events = <<"scene:resumed">>)]_vars

Position(s, x) == IF \E i \in DOMAIN s : s[i] = x
                  THEN CHOOSE i \in DOMAIN s : s[i] = x
                  ELSE 0

\* C20: in a frame the steps come in the order begin(), before-render
\* callbacks, render, after-render callbacks, end(); the update of the
\* camera controller and the components comes after begin() and before the
\* render and before end().
C20_UpdateBeforeRenderInsideWindow ==
    /\ \A i, j \in DOMAIN log :
            (i < j /\ log[i] # "update" /\ log[j] # "update") =>
                ~(log[j] = "begin")
                /\ ~(log[i] = "render" /\ log[j] = "before")
                /\ ~(log[i] = "after" /\ log[j] \in {"before", "render"})
                /\ ~(log[i] = "end" /\ log[j] \in {"before", "render", "after"})
    /\ \A i \in DOMAIN log : log[i] = "update" =>
            /\ Position(log, "begin") \in 1..(i - 1)
            /\ Position(log, "render") \notin 1..(i - 1)
            /\ Position(log, "end") \notin 1..(i - 1)

\* ---------------------------------------------------------------- component properties
\* C19: a disposed component has no listener left on window nor on
\* 'scroll:update', and no event reaches a handler of a component that was
\* disposed when the event came.
C19_DisposedComponentHasNoListener ==
    /\ \A c \in Components : component[c] = "disposed" =>
            /\ \A l \in windowListeners : l.callback.owner # c
            /\ \A f \in scrollUpdate : f.owner # c
    /\ fired.reached \cap fired.disposed = {}

====
